---- MODULE Spec2Model ----
(***************************************************************************)
(* Model of the tablet screenshot generator (src/src): the dimension       *)
(* fitter (models.py), the per-image pipeline (image_processor.py), the    *)
(* batch orchestrator (generator.py) and the command line entry point      *)
(* (main.py, config.py, logger.py, path_manager.py).                       *)
(***************************************************************************)
EXTENDS Integers, Sequences, FiniteSets, TLC

VARIABLES
    fit,        \* one call of ImageDimensions.scale_to_fit: receiver, arguments, outcome
    config,     \* ScreenshotGenerator.config, the configuration mapping
    world,      \* the file system: the input directory, its files, the output directory
    written,    \* the files that save_image has written: path and content
    call,       \* one direct call of process_image: its input path and its outcome
    made,       \* one construction of a ProcessingResult: the fields given and the outcome
    results,    \* ScreenshotGenerator.results
    batch,      \* process_directory: its position, screenshot_files, the next file, the returned list
    main,       \* one run of main: its arguments, the configuration file, its position, its exit status
    prev,       \* the outcome and exit status of the run before this one, as its caller saw them
    logged,     \* one direct call of log_exception: the exception and the returned code
    cm          \* a ConfigManager, the objects its config refers to, and a dictionary it exported

fitVars == <<fit>>
genVars == <<config, world, written, call, made, results, batch>>
mainVars == <<main, prev, logged>>
cfgVars == <<cm>>
vars == <<fit, config, world, written, call, made, results, batch, main, prev, logged, cm>>

(***************************************************************************)
(* Bounds of the model.                                                    *)
(***************************************************************************)
MaxDim == 6         \* original widths and heights are drawn from 1..MaxDim
MaxBound == 4       \* max_width and max_height are drawn from -1..MaxBound

(***************************************************************************)
(* Python arithmetic.                                                      *)
(***************************************************************************)
Abs(x) == IF x < 0 THEN -x ELSE x

RECURSIVE GCD(_, _)
GCD(a, b) == IF b = 0 THEN a ELSE GCD(b, a % b)

RECURSIVE IsPow2(_)
IsPow2(n) == IF n = 1 THEN TRUE ELSE IF n % 2 # 0 THEN FALSE ELSE IsPow2(n \div 2)

\* The quotient num/den of two positive ints is a binary fraction, so the
\* double that `/` returns is the quotient itself and products with small
\* ints are exact.  Otherwise the double is off by a rounding error.
IsDyadic(num, den) == IsPow2(den \div GCD(num, den))

\* round(x) for the double that approximates n/d (n >= 0, d > 0).  Python
\* rounds a double to the nearest int, a half to the even neighbour.  When
\* n/d is a half exactly but was computed through an inexact double, the
\* rounding error of the double decides between the two neighbours: both
\* outcomes occur (7x14 into 15x29 gives 15x29, not 14x29).
PyRound(n, d, exact) ==
    LET q == n \div d
        r == n % d
    IN  IF 2 * r < d THEN {q}
        ELSE IF 2 * r > d THEN {q + 1}
        ELSE IF exact THEN {IF q % 2 = 0 THEN q ELSE q + 1}
        ELSE {q, q + 1}

(***************************************************************************)
(* models.py: ImageDimensions                                              *)
(***************************************************************************)
Raised(kind) == [ok |-> FALSE, exc |-> kind, width |-> 0, height |-> 0]

NoCall == [ok |-> FALSE, exc |-> "not called", width |-> 0, height |-> 0]

\* ImageDimensions(width, height) with its __post_init__ validation.
ImageDimensions(width, height) ==
    IF width <= 0 \/ height <= 0
    THEN Raised("ProcessingError")
    ELSE [ok |-> TRUE, exc |-> "none", width |-> width, height |-> height]

Dims(w, h) == [width |-> w, height |-> h]

\* Mutant: a bound below 1 is taken as 1 instead of being rejected.
scale_to_fit_bounds_raised_to_one(self, max_width, max_height) ==
    LET mw == IF max_width <= 0 THEN 1 ELSE max_width
        mh == IF max_height <= 0 THEN 1 ELSE max_height
        num == IF mw * self.height <= mh * self.width THEN mw ELSE mh
        den == IF mw * self.height <= mh * self.width THEN self.width ELSE self.height
    IN  {ImageDimensions(w, h) :
            w \in PyRound(self.width * num, den, IsDyadic(num, den)),
            h \in PyRound(self.height * num, den, IsDyadic(num, den))}

\* Mutant: the larger of the two scales (fill instead of fit).
FitScaleMax(self, max_width, max_height) ==
    IF max_width * self.height >= max_height * self.width
    THEN <<max_width, self.width>>
    ELSE <<max_height, self.height>>

\* Mutant: never enlarge (scale capped at 1).
FitScaleNoUpscale(self, max_width, max_height) ==
    IF max_width >= self.width /\ max_height >= self.height
    THEN <<1, 1>>
    ELSE IF max_width * self.height <= max_height * self.width
         THEN <<max_width, self.width>>
         ELSE <<max_height, self.height>>

\* scale = min(width_scale, height_scale), as the fraction <<num, den>>:
\* width_scale = max_width / self.width, height_scale = max_height / self.height.
FitScale(self, max_width, max_height) ==
    IF max_width * self.height <= max_height * self.width
    THEN <<max_width, self.width>>
    ELSE <<max_height, self.height>>

\* Mutant: int() truncation instead of round().
RoundScaledTrunc(side, s) == {(side * s[1]) \div s[2]}

\* round(self.<side> * scale) for scale = <<num, den>>.
RoundScaled(side, s) == PyRound(side * s[1], s[2], IsDyadic(s[1], s[2]))

\* The outcomes of self.scale_to_fit(max_width, max_height): one outcome,
\* except where an inexact double sits on a rounding tie.
scale_to_fit(self, max_width, max_height) ==
    IF max_width <= 0 \/ max_height <= 0
    THEN {Raised("ProcessingError")}
    ELSE LET s == FitScale(self, max_width, max_height)
         IN  {ImageDimensions(w, h) : w \in RoundScaled(self.width, s),
                                      h \in RoundScaled(self.height, s)}

(***************************************************************************)
(* Optional values (None), file names and paths.                           *)
(***************************************************************************)
None == <<>>
Some(v) == <<v>>

\* No call of scale_to_fit and no canvas in this scenario.
NoFitCall ==
    [self |-> Dims(1, 1), max_width |-> 0, max_height |-> 0, out |-> Raised("unused"),
     canvas |-> None]

\* File names are strings, here sequences of code points: "a.jpg" is
\* <<97, 46, 106, 112, 103>>.  Stems are one or two letters from 'a' on.
MaxChar == 1        \* the stems use the first MaxChar letters
Letters == {96 + i : i \in 1..MaxChar}
Stems == {<<c>> : c \in Letters} \cup {<<c, d>> : c \in Letters, d \in Letters}
JpgSuffix == <<46, 106, 112, 103>>
PngSuffix == <<46, 112, 110, 103>>
JpgNames == {st \o JpgSuffix : st \in Stems}
FileNames == JpgNames \cup {st \o PngSuffix : st \in Stems}

\* A path is a directory and a file name; Path(p).name is p.name.
EmptyPath == [dir |-> "", name |-> <<>>]
InputDir == "screenshots"
PathIn(dir, name) == [dir |-> dir, name |-> name]

(***************************************************************************)
(* models.py: TabletPreset, ScreenshotConfig, ProcessingResult             *)
(***************************************************************************)
\* An outcome of a call: a returned value or a raised exception.
Return(v) == [raised |-> FALSE, exc |-> "none", val |-> v]
Raise(class) == [raised |-> TRUE, exc |-> class, val |-> None]

TabletPreset(size, width, height, dpi) ==
    IF width <= 0 \/ height <= 0 \/ dpi <= 0 \/ size \notin {"7inch", "10inch"}
    THEN Raise("ProcessingError")
    ELSE Return([size |-> size, width |-> width, height |-> height, dpi |-> dpi])

\* ScreenshotConfig.__post_init__.  background_color is a tuple of ints.
ScreenshotConfig(input_path, output_path, tablet_preset, jpeg_quality, background_color) ==
    IF \/ input_path = EmptyPath
       \/ output_path = EmptyPath
       \/ ~(1 <= jpeg_quality /\ jpeg_quality <= 100)
       \/ Len(background_color) # 3
       \/ \E k \in 1..Len(background_color) :
             ~(0 <= background_color[k] /\ background_color[k] <= 255)
    THEN Raise("ProcessingError")
    ELSE Return([input_path |-> input_path, output_path |-> output_path,
                 tablet_preset |-> tablet_preset, jpeg_quality |-> jpeg_quality,
                 background_color |-> background_color])

\* Mutant: the check that a failed result carries an error is missing.
ResultFieldsValidNoErrorCheck(success, error, file_size_mb) ==
    /\ ~(success /\ error # None)
    /\ ~(file_size_mb # None /\ file_size_mb[1] < 0)

\* ProcessingResult.__post_init__: the three checks that must pass.
ResultFieldsValid(success, error, file_size_mb) ==
    /\ ~(success /\ error # None)
    /\ ~(~success /\ error = None)
    /\ ~(file_size_mb # None /\ file_size_mb[1] < 0)

ProcessingResult(input_file, output_file, success, error, file_size_mb, scaled_dimensions) ==
    IF ResultFieldsValid(success, error, file_size_mb)
    THEN Return([input_file |-> input_file, output_file |-> output_file,
                 success |-> success, error |-> error,
                 file_size_mb |-> file_size_mb,
                 scaled_dimensions |-> scaled_dimensions])
    ELSE Raise("ProcessingError")

(***************************************************************************)
(* image_processor.py: ImageProcessor                                      *)
(***************************************************************************)
MIN_WIDTH == 100
MAX_IMAGE_DIMENSION == 8000

\* What lies at a path: an image of some size, and the exception (if any)
\* that the environment raises inside one stage of the pipeline when this
\* file is processed (a corrupt file is an OSError in load, a full disk an
\* OSError in save).  out_mb is the size of the encoded output in MB.
NoFault == [stage |-> "none", class |-> "none"]
Stages == {"load", "validate", "fit", "resample", "composite", "save", "stat"}
ExcClasses == {"OSError", "ValueError", "MemoryError"}
Faults == [stage : Stages, class : ExcClasses]
Image(w, h, mb) == [width |-> w, height |-> h, fault |-> NoFault, out_mb |-> mb]
Faulty(f) == [width |-> 1080, height |-> 1920, fault |-> f, out_mb |-> 1]

\* The except clauses of each stage: the class that leaves the stage when
\* an exception of `class` is raised inside it.
StageRaises(stage, class) ==
    CASE stage = "load" ->
            IF class \in {"FileNotFoundError", "OSError", "ValueError"}
            THEN "ProcessingError" ELSE class
      [] stage = "validate" ->
            IF class \in {"AttributeError", "TypeError"} THEN "ProcessingError" ELSE class
      [] stage = "fit" ->
            IF class \in {"ValueError", "ZeroDivisionError"} THEN "ProcessingError" ELSE class
      [] stage = "resample" -> "ProcessingError"
      [] stage = "composite" ->
            IF class \in {"ValueError", "TypeError", "MemoryError"}
            THEN "ProcessingError" ELSE class
      [] stage = "save" -> "ProcessingError"
      [] OTHER -> class

\* Mutant: the minimum is applied to the width only.
validate_image_min_width_only(width, height) ==
    IF width < MIN_WIDTH
    THEN Raised("ProcessingError")
    ELSE IF width > MAX_IMAGE_DIMENSION \/ height > MAX_IMAGE_DIMENSION
    THEN Raised("ProcessingError")
    ELSE ImageDimensions(width, height)

\* validate_image: the size checks; returns ImageDimensions.
validate_image(width, height) ==
    IF width < MIN_WIDTH \/ height < MIN_WIDTH
    THEN Raised("ProcessingError")
    ELSE IF width > MAX_IMAGE_DIMENSION \/ height > MAX_IMAGE_DIMENSION
    THEN Raised("ProcessingError")
    ELSE ImageDimensions(width, height)

\* The try body of process_screenshot, stage by stage.  An outcome names
\* the exception class that left the body ("none": the body completed), the
\* stage it came from, the file save_image wrote (None: none), and the
\* scaled dimensions and output size of a completed run.
\* Mutant: the offsets are rounded up.
PasteOffsetRoundedUp(W, H, w, h) == <<(W - w + 1) \div 2, (H - h + 1) \div 2>>

\* create_padded_image: x_offset, y_offset of the paste of an image of size
\* <<w, h>> on a canvas of size <<W, H>> (// rounds towards minus infinity).
PasteOffset(W, H, w, h) == <<(W - w) \div 2, (H - h) \div 2>>

\* Mutant: the canvas takes the size of the resized image.
create_padded_image_unpadded(resized_img, tablet_preset, background_color) ==
    [width |-> resized_img.width, height |-> resized_img.height,
     color |-> background_color, pasted |-> resized_img,
     offset |-> <<0, 0>>]

\* create_padded_image: a canvas of the tablet's size in the background
\* colour with the resized image pasted at the offset.
create_padded_image(resized_img, tablet_preset, background_color) ==
    [width |-> tablet_preset.width, height |-> tablet_preset.height,
     color |-> background_color, pasted |-> resized_img,
     offset |-> PasteOffset(tablet_preset.width, tablet_preset.height,
                            resized_img.width, resized_img.height)]

\* resize_image: the source image resampled to the target size.
resize_image(img, target_width, target_height) ==
    [width |-> target_width, height |-> target_height,
     source |-> <<img.width, img.height>>]

\* save_image: the file that img.save writes, a JPEG of the canvas at the
\* quality, out_mb megabytes long.  Equal records are equal bytes.
save_image(img, jpeg_quality, out_mb) ==
    [format |-> "JPEG", image |-> img, quality |-> jpeg_quality, out_mb |-> out_mb]

BodyOutcome(class, stage, saved, dims, mb) ==
    [exc |-> class, stage |-> stage, saved |-> saved, dims |-> dims, mb |-> mb]
Fails(class, stage, saved) == BodyOutcome(class, stage, saved, None, None)
Env(c, stage, saved) == Fails(StageRaises(stage, c.fault.class), stage, saved)

ScreenshotBody(cfg, w) ==
    LET p == cfg.input_path
    IN  IF ~(p.dir = InputDir /\ w.in_ok /\ p.name \in DOMAIN w.files)
        THEN {Fails("ProcessingError", "load", None)}
        ELSE
        LET c == w.files[p.name]
            original_dims == validate_image(c.width, c.height)
        IN  IF c.fault.stage = "load" THEN {Env(c, "load", None)}
            ELSE IF c.fault.stage = "validate" THEN {Env(c, "validate", None)}
            ELSE IF ~original_dims.ok THEN {Fails("ProcessingError", "validate", None)}
            ELSE IF c.fault.stage = "fit" THEN {Env(c, "fit", None)}
            ELSE
            { LET resized_img == resize_image(c, scaled.width, scaled.height)
                  padded_img == create_padded_image(resized_img, cfg.tablet_preset,
                                                    cfg.background_color)
                  file == save_image(padded_img, cfg.jpeg_quality, c.out_mb)
              IN  IF ~scaled.ok THEN Fails("ProcessingError", "fit", None)
                  ELSE IF c.fault.stage = "resample" THEN Env(c, "resample", None)
                  ELSE IF c.fault.stage = "composite" THEN Env(c, "composite", None)
                  ELSE IF ~w.out_ok THEN Fails("ProcessingError", "save", None)
                  ELSE IF c.fault.stage = "save" THEN Env(c, "save", None)
                  ELSE IF c.fault.stage = "stat" THEN Env(c, "stat", Some(file))
                  ELSE BodyOutcome("none", "none", Some(file),
                                   Some(<<scaled.width, scaled.height>>), Some(c.out_mb))
              : scaled \in scale_to_fit(original_dims, cfg.tablet_preset.width,
                                        cfg.tablet_preset.height) }

ErrorText(unexpected, stage) == Some([unexpected |-> unexpected, stage |-> stage])

\* Mutant: a success reports the size of the canvas as scaled_dimensions.
ScreenshotResultCanvasSize(cfg, b) ==
    IF b.exc = "none"
    THEN ProcessingResult(cfg.input_path, cfg.output_path, TRUE, None, b.mb,
                          Some(<<cfg.tablet_preset.width, cfg.tablet_preset.height>>))
    ELSE ProcessingResult(cfg.input_path, cfg.output_path, FALSE,
                          ErrorText(b.exc # "ProcessingError", b.stage), None, None)

\* The return statements of process_screenshot: after the try body, in the
\* ProcessingError handler and in the Exception handler.
ScreenshotResult(cfg, b) ==
    IF b.exc = "none"
    THEN ProcessingResult(cfg.input_path, cfg.output_path, TRUE, None, b.mb, b.dims)
    ELSE IF b.exc = "ProcessingError"
    THEN ProcessingResult(cfg.input_path, cfg.output_path, FALSE,
                          ErrorText(FALSE, b.stage), None, None)
    ELSE ProcessingResult(cfg.input_path, cfg.output_path, FALSE,
                          ErrorText(TRUE, b.stage), None, None)

\* Mutant: the parent directories are made before the image is loaded.
ParentsMadeAtStart(stage, out_ok) == out_ok

\* save_image: output_path.parent.mkdir(parents=True, exist_ok=True) has run
\* in a body that ended in `stage` ("none": it completed): it is the first
\* statement of save_image and creates the missing parent directories of
\* the output path.
ParentsMade(stage, out_ok) == out_ok /\ stage \in {"save", "stat", "none"}

\* The files written so far after a call that saved `file` (None: nothing)
\* at `path`: img.save replaces what was at the path.
Saved(files, path, file) ==
    IF file = None THEN files
    ELSE {f \in files : f.path # path} \cup {[path |-> path, file |-> file[1]]}

\* The file system a call works on: the files of the input directory as
\* they were before the run, and over them the files written since (a
\* written JPEG is read back as an image of the size of its canvas).
FileSystem(w, files) ==
    LET over == {f \in files : f.path.dir = InputDir /\ w.in_ok}
        names == DOMAIN w.files \cup {f.path.name : f \in over}
    IN  [w EXCEPT !.files =
            [n \in names |->
                IF \E f \in over : f.path.name = n
                THEN LET f == CHOOSE g \in over : g.path.name = n
                     IN  Image(f.file.image.width, f.file.image.height, f.file.out_mb)
                ELSE w.files[n]]]

\* process_screenshot(config): the outcomes, each with the file system effect.
process_screenshot(cfg, w) ==
    {[out |-> ScreenshotResult(cfg, b), saved |-> b.saved,
      mkdir |-> ParentsMade(b.stage, w.out_ok)] : b \in ScreenshotBody(cfg, w)}

(***************************************************************************)
(* generator.py: ScreenshotGenerator                                       *)
(***************************************************************************)
\* get_tablet_preset: the configured size, "7inch" when the key is absent.
get_tablet_preset(cfg) ==
    LET tablet_size == IF cfg.tablet_size = None THEN "7inch" ELSE cfg.tablet_size[1]
    IN  IF tablet_size = "7inch" THEN TabletPreset("7inch", 1080, 1920, 326)
        ELSE IF tablet_size = "10inch" THEN TabletPreset("10inch", 1080, 1920, 216)
        ELSE Raise("ProcessingError")

\* _get_output_path: the input's file name in the output directory.
get_output_path(cfg, input_path) ==
    LET output_dir == IF cfg.output_dir = None THEN "output" ELSE cfg.output_dir[1]
    IN  PathIn(output_dir, input_path.name)

\* Mutant: `except ProcessingError` in place of `except Exception`.
ProcessImageCatchesOnlyProcessingError(class) == class = "ProcessingError"

\* The handler of process_image: `except Exception`.
ProcessImageCatches(class) == TRUE

\* A record that process_image hands to its logger.
LogRecord(level, text, input_path) == [level |-> level, text |-> text, file |-> input_path]

\* The records process_image logs for the result of process_screenshot.
ProcessImageLog(input_path, result) ==
    IF result.success THEN {LogRecord("INFO", "Processed", input_path)}
    ELSE {LogRecord("ERROR", "Failed to process", input_path)}

\* The except branch of process_image for an exception of `class`.
ProcessImageHandler(input_path, class, saved, mkdir) ==
    IF ProcessImageCatches(class)
    THEN [out |-> ProcessingResult(input_path, EmptyPath, FALSE,
                                   ErrorText(FALSE, "job"), None, None),
          saved |-> saved, mkdir |-> mkdir,
          log |-> {LogRecord("ERROR", "Unexpected error processing", input_path)}]
    ELSE [out |-> Raise(class), saved |-> saved, mkdir |-> mkdir, log |-> {}]

\* process_image(input_path): the outcomes (a returned ProcessingResult or a
\* raised exception), each with the output file that was written, if any.
process_image(cfg, w, input_path) ==
    LET tablet_preset == get_tablet_preset(cfg)
        output_path == get_output_path(cfg, input_path)
        jpeg_quality == IF cfg.jpeg_quality = None THEN 95 ELSE cfg.jpeg_quality[1]
        bg == cfg.background_color
        background_color == IF bg.kind = "absent" THEN <<0, 0, 0>> ELSE bg.val
        job == ScreenshotConfig(input_path, output_path, tablet_preset.val,
                                jpeg_quality, background_color)
    IN  IF tablet_preset.raised
        THEN {ProcessImageHandler(input_path, tablet_preset.exc, None, FALSE)}
        ELSE IF bg.kind = "scalar"
        THEN {ProcessImageHandler(input_path, "TypeError", None, FALSE)}
        ELSE IF job.raised
        THEN {ProcessImageHandler(input_path, job.exc, None, FALSE)}
        ELSE {IF r.out.raised
              THEN ProcessImageHandler(input_path, r.out.exc, r.saved, r.mkdir)
              ELSE [out |-> r.out, saved |-> r.saved, mkdir |-> r.mkdir,
                    log |-> ProcessImageLog(input_path, r.out.val)]
              : r \in process_screenshot(job.val, w)}

(***************************************************************************)
(* One call of process_image, for every configuration mapping, input path  *)
(* and file; and one construction of a ProcessingResult from given fields. *)
(***************************************************************************)
Configs ==
    [tablet_size : {None, Some("10inch"), Some("15inch")},
     input_dir : {Some(InputDir)},
     output_dir : {None, Some("out"), Some(InputDir)},
     jpeg_quality : {None, Some(0), Some(100), Some(101)},
     size_threshold_mb : {None},
     background_color : {[kind |-> "absent", val |-> <<>>],
                         [kind |-> "list", val |-> <<255, 255, 255>>],
                         [kind |-> "list", val |-> <<0, 0>>],
                         [kind |-> "list", val |-> <<0, 0, 256>>],
                         [kind |-> "scalar", val |-> <<>>]}]
DefaultConfig ==
    [tablet_size |-> None, input_dir |-> Some(InputDir), output_dir |-> Some("out"),
     jpeg_quality |-> None, size_threshold_mb |-> None,
     background_color |-> [kind |-> "absent", val |-> <<>>]]

FileKinds ==
    {Image(1080, 1920, 1), Image(1920, 1080, 1), Image(100, 100, 1),
     Image(8000, 8000, 9), Image(99, 1920, 1), Image(1080, 99, 1),
     Image(8001, 1920, 1), Image(1080, 8001, 1)} \cup {Faulty(f) : f \in Faults}
    \cup {[Image(99, 1920, 1) EXCEPT !.fault = [stage |-> st, class |-> "OSError"]] :
             st \in {"load", "composite"}}

NoFiles == [n \in {} |-> Image(1080, 1920, 1)]
OneFile(name, kind) == [n \in {name} |-> kind]
EmptyWorld == [in_ok |-> TRUE, scan_ok |-> TRUE, files |-> NoFiles, out_ok |-> TRUE]

NotCalled == [raised |-> FALSE, exc |-> "not called", val |-> None]
\* No generator on which process_directory could be called.
NoBatch ==
    [pc |-> "none", input_dir |-> "", screenshot_files |-> <<>>, next |-> 0,
     ret |-> None, exc |-> "none", summary |-> None, again |-> FALSE, held |-> 0]
\* No call of log_exception, no ConfigManager.
NoLogCall == [exception |-> "none", ret |-> None]
NoManager == [config |-> <<>>, tablet_size |-> "", heap |-> <<>>, exported |-> None,
              original |-> <<>>]
NoMain ==
    [pc |-> "none", argv |-> <<>>, args |-> <<>>, file |-> <<>>, exit_code |-> None,
     raised |-> "none"]
\* A generator was constructed; process_directory has not been called.
IdleBatch == [NoBatch EXCEPT !.pc = "idle"]
NoImageCall ==
    [path |-> EmptyPath, out |-> NotCalled, active |-> FALSE,
     first_file |-> None, again |-> NotCalled, mkdir |-> FALSE, log |-> {}]
NoConstruction == [args |-> <<>>, out |-> NotCalled, active |-> FALSE]

ErrorTexts == {ErrorText(u, st) : u \in BOOLEAN, st \in {"load", "job"}}
ResultArgs ==
    [success : BOOLEAN, error : {None} \cup ErrorTexts,
     file_size_mb : {None, Some(-1), Some(0), Some(9)},
     scaled_dimensions : {None, Some(<<1080, 1920>>)}]

\* A generator with some configuration, a file system with at most one file
\* (at the path of the call or nowhere), and a pending call of process_image.
ImageCallInit ==
    /\ config \in Configs
    /\ \E name \in FileNames, empty \in BOOLEAN :
          /\ call = [NoImageCall EXCEPT
                        !.path = IF empty THEN EmptyPath ELSE PathIn(InputDir, name),
                        !.active = TRUE]
          /\ \E out_ok \in BOOLEAN :
                \/ world = [EmptyWorld EXCEPT !.out_ok = out_ok]
                \/ \E kind \in FileKinds :
                      world = [EmptyWorld EXCEPT !.files = OneFile(name, kind),
                                                  !.out_ok = out_ok]
    /\ written = {}
    /\ made = NoConstruction
    /\ results = <<>>
    /\ batch = NoBatch
    /\ main = NoMain
    /\ prev = None
    /\ logged = NoLogCall
    /\ cm = NoManager

ConstructInit ==
    /\ config = DefaultConfig
    /\ world = EmptyWorld
    /\ written = {}
    /\ call = NoImageCall
    /\ made \in [args : ResultArgs, out : {NotCalled}, active : {TRUE}]
    /\ results = <<>>
    /\ batch = NoBatch
    /\ main = NoMain
    /\ prev = None
    /\ logged = NoLogCall
    /\ cm = NoManager

ImageInit == fit = NoFitCall /\ (ImageCallInit \/ ConstructInit)

\* The content of the file at `path` among the written files, if any.
FileAt(files, path) ==
    IF \E f \in files : f.path = path
    THEN Some((CHOOSE f \in files : f.path = path).file)
    ELSE None

\* generator.process_image(call.path)
CallProcessImage ==
    /\ call.active /\ call.out = NotCalled
    /\ \E r \in process_image(config, FileSystem(world, written), call.path) :
          /\ written' = Saved(written, get_output_path(config, call.path), r.saved)
          /\ call' = [call EXCEPT !.out = r.out,
                                  !.first_file = FileAt(written',
                                                        get_output_path(config, call.path)),
                                  !.mkdir = r.mkdir,
                                  !.log = r.log]
    /\ UNCHANGED <<fit, config, world, made, results, batch, main, prev, logged, cm>>

\* generator.process_image(call.path), a second time on the same generator.
CallProcessImageAgain ==
    /\ call.active /\ call.out # NotCalled /\ call.again = NotCalled
    /\ \E r \in process_image(config, FileSystem(world, written), call.path) :
          /\ written' = Saved(written, get_output_path(config, call.path), r.saved)
          /\ call' = [call EXCEPT !.again = r.out]
    /\ UNCHANGED <<fit, config, world, made, results, batch, main, prev, logged, cm>>

\* ProcessingResult(**made.args)
ConstructResult ==
    /\ made.active /\ made.out = NotCalled
    /\ made' = [made EXCEPT !.out =
                   ProcessingResult(PathIn(InputDir, <<>>), EmptyPath,
                                    made.args.success, made.args.error,
                                    made.args.file_size_mb,
                                    made.args.scaled_dimensions)]
    /\ UNCHANGED <<fit, config, world, written, call, results, batch, main, prev, logged, cm>>

ImageNext == CallProcessImage \/ CallProcessImageAgain \/ ConstructResult

SpecImage == ImageInit /\ [][ImageNext]_vars

(***************************************************************************)
(* process_image under the default configuration and under the 10inch      *)
(* preset, on one image of every pair of sides around the limits of        *)
(* validate_image and the sides of the tablet.                             *)
(***************************************************************************)
SideSamples == {99, 100, 101, 540, 1079, 1080, 1081, 1920, 1921, 4000, 7999, 8000, 8001}

PipelineInit ==
    /\ fit = NoFitCall
    /\ config \in {DefaultConfig, [DefaultConfig EXCEPT !.tablet_size = Some("10inch")]}
    /\ \E w, h \in SideSamples :
          world = [EmptyWorld EXCEPT !.files = OneFile(<<97>> \o JpgSuffix, Image(w, h, 1))]
    /\ written = {}
    /\ call = [NoImageCall EXCEPT !.path = PathIn(InputDir, <<97>> \o JpgSuffix),
                                  !.active = TRUE]
    /\ made = NoConstruction
    /\ results = <<>>
    /\ batch = NoBatch
    /\ main = NoMain
    /\ prev = None
    /\ logged = NoLogCall
    /\ cm = NoManager

PipelineNext == CallProcessImage \/ CallProcessImageAgain

SpecPipeline == PipelineInit /\ [][PipelineNext]_vars

(***************************************************************************)
(* path_manager.py and the batch loop of generator.py                      *)
(***************************************************************************)
MaxFiles == 2       \* the input directory holds at most MaxFiles entries


\* String comparison: a < b, code point by code point, a prefix first.
RECURSIVE LexLess(_, _)
LexLess(a, b) ==
    IF b = <<>> THEN FALSE
    ELSE IF a = <<>> THEN TRUE
    ELSE IF Head(a) # Head(b) THEN Head(a) < Head(b)
    ELSE LexLess(Tail(a), Tail(b))

\* Mutant: sorted(..., reverse=True).
RECURSIVE SortedDescending(_)
SortedDescending(S) ==
    IF S = {} THEN <<>>
    ELSE LET m == CHOOSE x \in S : \A y \in S \ {x} : LexLess(y, x)
         IN  <<m>> \o SortedDescending(S \ {m})

\* sorted(names): ascending.
RECURSIVE Sorted(_)
Sorted(S) ==
    IF S = {} THEN <<>>
    ELSE LET m == CHOOSE x \in S : \A y \in S \ {x} : LexLess(x, y)
         IN  <<m>> \o Sorted(S \ {m})

\* fnmatch(name, "*" + suffix)
EndsWith(name, suffix) ==
    /\ Len(name) >= Len(suffix)
    /\ SubSeq(name, Len(name) - Len(suffix) + 1, Len(name)) = suffix

\* validate_input_dir: the directory exists and is a readable directory.
InputDirAccessible(w, input_dir) == input_dir = InputDir /\ w.in_ok

\* get_screenshot_files(input_dir, "*.jpg"): the matching paths, sorted; a
\* PathError when the path is no directory or the scan meets an OSError.
get_screenshot_files(w, input_dir) ==
    LET names == Sorted({n \in DOMAIN w.files : EndsWith(n, JpgSuffix)})
    IN  IF ~InputDirAccessible(w, input_dir) THEN Raise("PathError")
        ELSE IF ~w.scan_ok THEN Raise("PathError")
        ELSE Return([k \in 1..Len(names) |-> PathIn(input_dir, names[k])])

\* Mutant: every result is counted as a success.
get_processing_stats_all_success(rs) ==
    [total |-> Len(rs), success |-> Len(rs), failed |-> 0]

\* get_processing_stats: the tally of self.results.
get_processing_stats(rs) ==
    LET success_count == Cardinality({k \in 1..Len(rs) : rs[k].success})
    IN  [total |-> Len(rs), success |-> success_count, failed |-> Len(rs) - success_count]

\* Mutant: the exit code is 1 when no result succeeded.
print_summary_no_success(rs) == IF get_processing_stats(rs).success = 0 THEN 1 ELSE 0

\* print_summary: the exit code, 1 if any result failed.
print_summary(rs) == IF get_processing_stats(rs).failed > 0 THEN 1 ELSE 0

\* Mutant: the result is appended twice.
AppendResultTwice(rs, result) == Append(Append(rs, result), result)

\* self.results.append(result)
AppendResult(rs, result) == Append(rs, result)

\* Mutant: process_directory keeps the results it holds.
NewResultsKept(rs) == rs

\* self.results = []
NewResults(rs) == <<>>

\* process_directory(input_dir), up to the loop: results is emptied, an
\* inaccessible directory returns [], else the files are discovered; an
\* exception of the discovery leaves process_directory.  It is called on a
\* new generator or again after an earlier call has returned; `held` is
\* the number of results the generator held when it was called.
ProcessDirectoryBegin(input_dir) ==
    /\ batch.pc \in {"idle", "returned"}
    /\ results' = NewResults(results)
    /\ LET screenshot_files == get_screenshot_files(world, input_dir)
           called == [NoBatch EXCEPT !.input_dir = input_dir,
                                     !.again = (batch.pc = "returned"),
                                     !.held = Len(results)]
       IN  IF ~InputDirAccessible(world, input_dir)
           THEN batch' = [called EXCEPT !.pc = "returned", !.ret = Some(<<>>)]
           ELSE IF screenshot_files.raised
           THEN batch' = [called EXCEPT !.pc = "raised", !.exc = screenshot_files.exc]
           ELSE batch' = [called EXCEPT !.pc = "loop", !.next = 1,
                                        !.screenshot_files = screenshot_files.val]
    /\ UNCHANGED <<fit, config, world, written, call, made, main, prev, logged, cm>>

\* One iteration of the loop: process_image on the next file, append.
ProcessDirectoryStep ==
    /\ batch.pc = "loop"
    /\ batch.next <= Len(batch.screenshot_files)
    /\ LET screenshot_path == batch.screenshot_files[batch.next]
       IN  \E r \in process_image(config, FileSystem(world, written), screenshot_path) :
              /\ written' = Saved(written, get_output_path(config, screenshot_path),
                                   r.saved)
              /\ IF r.out.raised
                 THEN /\ batch' = [batch EXCEPT !.pc = "raised", !.exc = r.out.exc]
                      /\ UNCHANGED results
                 ELSE /\ results' = AppendResult(results, r.out.val)
                      /\ batch' = [batch EXCEPT !.next = @ + 1]
    /\ UNCHANGED <<fit, config, world, call, made, main, prev, logged, cm>>

\* The loop is over: return self.results.
ProcessDirectoryReturn ==
    /\ batch.pc = "loop"
    /\ batch.next > Len(batch.screenshot_files)
    /\ batch' = [batch EXCEPT !.pc = "returned", !.ret = Some(results)]
    /\ UNCHANGED <<fit, config, world, written, call, made, results, main, prev, logged, cm>>

(***************************************************************************)
(* A generator and a directory of files: process_directory.                *)
(***************************************************************************)
\* The default configuration, one with an invalid quality, and one whose
\* output directory is the input directory.
BatchConfigs ==
    {DefaultConfig, [DefaultConfig EXCEPT !.jpeg_quality = Some(0)],
     [DefaultConfig EXCEPT !.output_dir = Some(InputDir)]}
BatchKinds ==
    {Image(1080, 1920, 1), Image(99, 1920, 1),
     Faulty([stage |-> "load", class |-> "OSError"]),
     Faulty([stage |-> "stat", class |-> "OSError"])}
Directories ==
    UNION {[S -> BatchKinds] : S \in {T \in SUBSET FileNames : Cardinality(T) <= MaxFiles}}

WorldInit ==
    \/ world = [EmptyWorld EXCEPT !.in_ok = FALSE]
    \/ world = [EmptyWorld EXCEPT !.scan_ok = FALSE]
    \/ world \in [in_ok : {TRUE}, scan_ok : {TRUE}, files : Directories, out_ok : BOOLEAN]

BatchInit ==
    /\ fit = NoFitCall
    /\ config \in BatchConfigs
    /\ WorldInit
    /\ written = {}
    /\ call = NoImageCall
    /\ made = NoConstruction
    /\ results = <<>>
    /\ batch = IdleBatch
    /\ main = NoMain
    /\ prev = None
    /\ logged = NoLogCall
    /\ cm = NoManager

\* generator.get_processing_stats() and generator.print_summary(), on a
\* generator that is not inside process_directory.
PrintSummary ==
    /\ batch.pc \in {"idle", "returned"}
    /\ batch.summary = None
    /\ batch' = [batch EXCEPT !.summary = Some([stats |-> get_processing_stats(results),
                                                exit_code |-> print_summary(results)])]
    /\ UNCHANGED <<fit, config, world, written, call, made, results, main, prev, logged, cm>>

BatchNext ==
    \/ \E input_dir \in {InputDir, "missing"} : ProcessDirectoryBegin(input_dir)
    \/ ProcessDirectoryStep
    \/ ProcessDirectoryReturn
    \/ PrintSummary

SpecBatch == BatchInit /\ [][BatchNext]_vars

\* A generator with the default configuration and a directory of sound and
\* corrupt files, or no readable directory.
LoopDirectories ==
    UNION {[S -> {Image(1080, 1920, 1), Image(99, 1920, 1),
                  Faulty([stage |-> "load", class |-> "OSError"])}] :
              S \in {T \in SUBSET JpgNames : Cardinality(T) <= MaxFiles}}
LoopInit ==
    /\ fit = NoFitCall
    /\ config = DefaultConfig
    /\ \/ world = [EmptyWorld EXCEPT !.in_ok = FALSE]
       \/ world \in [in_ok : {TRUE}, scan_ok : {TRUE}, files : LoopDirectories,
                     out_ok : {TRUE}]
    /\ written = {}
    /\ call = NoImageCall
    /\ made = NoConstruction
    /\ results = <<>>
    /\ batch = IdleBatch
    /\ main = NoMain
    /\ prev = None
    /\ logged = NoLogCall
    /\ cm = NoManager

\* process_directory is one sequential loop in one thread: an iteration
\* that can run does run, and so does the return after the last one.
SpecBatchFair ==
    /\ LoopInit /\ [][BatchNext]_vars
    /\ WF_vars(ProcessDirectoryStep) /\ WF_vars(ProcessDirectoryReturn)

(***************************************************************************)
(* The dimension fitter on its own: every original and every bound.        *)
(***************************************************************************)
FitInit ==
    /\ fit \in [self : [width : 1..MaxDim, height : 1..MaxDim],
                max_width : (-1)..MaxBound, max_height : (-1)..MaxBound,
                out : {NoCall}, canvas : {None}]
    /\ config = DefaultConfig
    /\ world = EmptyWorld
    /\ written = {}
    /\ call = NoImageCall
    /\ made = NoConstruction
    /\ results = <<>>
    /\ batch = NoBatch
    /\ main = NoMain
    /\ prev = None
    /\ logged = NoLogCall
    /\ cm = NoManager

CallScaleToFit ==
    /\ fit.out = NoCall
    /\ \E o \in scale_to_fit(fit.self, fit.max_width, fit.max_height) :
          fit' = [fit EXCEPT !.out = o]
    /\ UNCHANGED <<genVars, mainVars, cfgVars>>

\* calculate_scaled_dimensions, resize_image and create_padded_image as
\* process_screenshot chains them: the original resized to the fitted
\* dimensions and padded to a tablet of max_width x max_height.
CallCreatePaddedImage ==
    /\ fit.out.ok /\ fit.canvas = None
    /\ LET tablet_preset == [size |-> "7inch", width |-> fit.max_width,
                             height |-> fit.max_height, dpi |-> 326]
           resized_img == resize_image(fit.self, fit.out.width, fit.out.height)
       IN  fit' = [fit EXCEPT !.canvas =
                      Some(create_padded_image(resized_img, tablet_preset, <<0, 0, 0>>))]
    /\ UNCHANGED <<genVars, mainVars, cfgVars>>

FitNext == CallScaleToFit \/ CallCreatePaddedImage

SpecFit == FitInit /\ [][FitNext]_vars

(***************************************************************************)
(* config.py: ConfigManager                                                *)
(***************************************************************************)
\* What yaml.safe_load makes of the configuration file: a mapping (its keys
\* named as in the generator's configuration, None for an absent key) or,
\* for a file that holds a YAML list, a list.  A file can also be absent,
\* unparseable or unreadable.
Mapping(m) == [kind |-> "mapping", map |-> m]
NoMapping(kind) == [kind |-> kind, map |-> <<>>]
DEFAULT_PRESETS == {"7inch", "10inch"}

\* _load_defaults
load_defaults(tablet_size) ==
    Mapping([tablet_size |-> Some(tablet_size), input_dir |-> None,
             output_dir |-> None, jpeg_quality |-> Some(95),
             size_threshold_mb |-> Some(8),
             background_color |-> [kind |-> "list", val |-> <<0, 0, 0>>]])

\* _load_from_yaml: a missing file, a YAMLError and an IOError are
\* ConfigErrors.
load_from_yaml(file) ==
    IF file.kind = "absent" THEN Raise("ConfigError")
    ELSE IF file.kind = "unparseable" THEN Raise("ConfigError")
    ELSE IF file.kind = "unreadable" THEN Raise("ConfigError")
    ELSE Return(file)

\* ConfigManager(config_path, tablet_size)
ConfigManager(config_path, tablet_size, file) ==
    LET loaded == IF config_path # None THEN load_from_yaml(file)
                  ELSE Return(load_defaults(tablet_size))
    IN  IF loaded.raised THEN loaded
        ELSE Return([config |-> loaded.val, tablet_size |-> tablet_size])

\* Mutant: validate_config without the check of the JPEG quality.
validate_config_no_quality(self) ==
    IF self.config.kind # "mapping" THEN Raise("AttributeError")
    ELSE
    LET m == self.config.map
        tablet_size == IF m.tablet_size = None THEN self.tablet_size ELSE m.tablet_size[1]
        size_threshold == IF m.size_threshold_mb = None THEN 8 ELSE m.size_threshold_mb[1]
    IN  IF tablet_size \notin DEFAULT_PRESETS THEN Raise("ConfigError")
        ELSE IF size_threshold <= 0 THEN Raise("ConfigError")
        ELSE Return(TRUE)

\* validate_config: self.config.get on a list is an AttributeError.
validate_config(self) ==
    IF self.config.kind # "mapping" THEN Raise("AttributeError")
    ELSE
    LET m == self.config.map
        tablet_size == IF m.tablet_size = None THEN self.tablet_size ELSE m.tablet_size[1]
        jpeg_quality == IF m.jpeg_quality = None THEN 95 ELSE m.jpeg_quality[1]
        size_threshold == IF m.size_threshold_mb = None THEN 8 ELSE m.size_threshold_mb[1]
    IN  IF tablet_size \notin DEFAULT_PRESETS THEN Raise("ConfigError")
        ELSE IF ~(1 <= jpeg_quality /\ jpeg_quality <= 100) THEN Raise("ConfigError")
        ELSE IF size_threshold <= 0 THEN Raise("ConfigError")
        ELSE Return(TRUE)

\* to_dict: a copy of the mapping.
to_dict(self) == self.config.map

(***************************************************************************)
(* generator.py: validate_setup                                            *)
(***************************************************************************)
validate_setup(cfg) ==
    LET tablet_size == IF cfg.tablet_size = None THEN "7inch" ELSE cfg.tablet_size[1]
    IN  IF tablet_size \notin {"7inch", "10inch"} THEN Raise("ProcessingError")
        ELSE IF cfg.input_dir = None THEN Raise("ProcessingError")
        ELSE IF cfg.output_dir = None THEN Raise("ProcessingError")
        ELSE Return(TRUE)

(***************************************************************************)
(* main.py, logger.py: one run of main                                     *)
(***************************************************************************)
\* merge_configs: the command line overrides the file.
merge_configs(yaml_config, cli_args) ==
    [yaml_config EXCEPT
        !.tablet_size = Some(cli_args.tablet_size),
        !.input_dir = IF cli_args.input # None THEN cli_args.input ELSE @,
        !.output_dir = IF cli_args.output # None THEN cli_args.output ELSE @,
        !.jpeg_quality = IF cli_args.quality # None THEN cli_args.quality ELSE @]

\* The exit_code attribute of an exception class, None for a class without
\* one.  "ConfigError" is the class of config.py, which config.py and main
\* raise and main catches; "logger.ConfigError" is the class of the same
\* name that logger.py defines.
exit_code(class) ==
    CASE class = "ConfigError" -> Some(1)
      [] class = "logger.ConfigError" -> Some(1)
      [] class = "PathError" -> Some(2)
      [] class = "ProcessingError" -> Some(3)
      [] class = "FatalError" -> Some(10)
      [] OTHER -> None

\* log_exception: getattr(exception, "exit_code", 1).
log_exception(class) == IF exit_code(class) = None THEN 1 ELSE exit_code(class)[1]

\* Mutant: every except clause of main returns log_exception(e).
ExitCodeAlwaysLogged(class) == log_exception(class)

\* The except clauses of main: the exit code for an exception of `class`
\* that leaves the try body (log_exception for the four classes main names,
\* 10 for every other exception).
ExitCode(class) ==
    IF class \in {"ConfigError", "PathError", "ProcessingError", "FatalError"}
    THEN log_exception(class)
    ELSE 10

\* The try body of main up to the construction of the generator: the final
\* configuration, or the exception that leaves it.
LoadConfiguration(args, file) ==
    LET config_manager == ConfigManager(args.config, args.tablet_size, file)
        valid == validate_config(config_manager.val)
        final_config == merge_configs(to_dict(config_manager.val), args)
    IN  IF config_manager.raised THEN config_manager
        ELSE IF valid.raised THEN valid
        ELSE IF final_config.input_dir = None THEN Raise("ConfigError")
        ELSE IF final_config.output_dir = None THEN Raise("ConfigError")
        ELSE Return(final_config)

Exits(class, code) == [main EXCEPT !.pc = "done", !.raised = class, !.exit_code = Some(code)]

\* main, from the loading of the configuration to ScreenshotGenerator(...).
MainLoadConfiguration ==
    /\ main.pc = "start"
    /\ LET c == LoadConfiguration(main.args, main.file)
       IN  IF c.raised
           THEN /\ main' = Exits(c.exc, ExitCode(c.exc))
                /\ UNCHANGED <<config, results, batch>>
           ELSE /\ main' = [main EXCEPT !.pc = "constructed"]
                /\ config' = c.val
                /\ results' = <<>>
                /\ batch' = IdleBatch
    /\ UNCHANGED <<fit, world, written, call, made, prev, logged, cm>>

\* if not generator.validate_setup(): return 2
MainValidateSetup ==
    /\ main.pc = "constructed"
    /\ LET v == validate_setup(config)
       IN  main' = IF v.raised THEN Exits(v.exc, ExitCode(v.exc))
                   ELSE IF ~v.val THEN Exits("none", 2)
                   ELSE [main EXCEPT !.pc = "running"]
    /\ UNCHANGED <<fit, config, world, written, call, made, results, batch, prev, logged, cm>>

\* results = generator.process_directory(input_dir)
MainProcessDirectory ==
    /\ main.pc = "running"
    /\ batch.pc = "idle"
    /\ ProcessDirectoryBegin(config.input_dir[1])

\* The end of main: 1 for no results, else the code of print_summary; the
\* exit code of an exception that left process_directory.
MainFinish ==
    /\ main.pc = "running"
    /\ \/ /\ batch.pc = "returned"
          /\ main' = IF batch.ret[1] = <<>> THEN Exits("none", 1)
                     ELSE Exits("none", print_summary(results))
       \/ /\ batch.pc = "raised"
          /\ main' = Exits(batch.exc, ExitCode(batch.exc))
    /\ UNCHANGED <<fit, config, world, written, call, made, results, batch, prev, logged, cm>>

\* How a finished run ended, as its caller tells it from the log: it could
\* not start (a configuration or path error, an input directory that cannot
\* be accessed), it met an unexpected exception, it found no file, some file
\* failed, or every file succeeded.
Outcome ==
    IF main.raised \in {"ConfigError", "PathError", "ProcessingError"} THEN "could not start"
    ELSE IF main.raised # "none" THEN "fatal"
    ELSE IF batch.pc # "returned" THEN "could not start"
    ELSE IF ~InputDirAccessible(world, batch.input_dir) THEN "could not start"
    ELSE IF results = <<>> THEN "nothing to do"
    ELSE IF get_processing_stats(results).failed > 0 THEN "some failed"
    ELSE "all succeeded"

\* The command lines argparse accepts, the configuration files and the file
\* systems of a run.
CommandLines ==
    [config : {None, Some("config.yaml")},
     tablet_size : {None} \cup {Some(s) : s \in DEFAULT_PRESETS},
     input : {None, Some(InputDir), Some("missing")}, output : {None, Some("out")},
     quality : {None, Some(80)}]

\* parse_arguments: the namespace; --tablet-size has the default "7inch",
\* the other options are None when absent from the command line.
parse_arguments(argv) ==
    [argv EXCEPT !.tablet_size = IF @ = None THEN "7inch" ELSE @[1]]

Args == {parse_arguments(argv) : argv \in CommandLines}
YamlMaps ==
    [tablet_size : {None, Some("10inch"), Some("15inch")},
     input_dir : {None, Some(InputDir)}, output_dir : {None, Some("out")},
     jpeg_quality : {None, Some(0), Some(90), Some(101)},
     size_threshold_mb : {None, Some(0), Some(8)},
     background_color : {[kind |-> "absent", val |-> <<>>]}]
ConfigFiles ==
    {NoMapping(k) : k \in {"absent", "unparseable", "unreadable", "list"}} \cup {Mapping(m) : m \in YamlMaps}
Runs == {r \in [argv : CommandLines, file : ConfigFiles] :
            r.argv.config = None => r.file = NoMapping("absent")}
FirstName == <<97>> \o JpgSuffix
SecondName == <<97, 97>> \o JpgSuffix
Corrupt == Faulty([stage |-> "load", class |-> "OSError"])
\* A file whose decoding runs out of memory: load_image does not catch it.
OutOfMemory == Faulty([stage |-> "load", class |-> "MemoryError"])
MainWorlds ==
    {[EmptyWorld EXCEPT !.in_ok = FALSE], [EmptyWorld EXCEPT !.scan_ok = FALSE]}
    \cup {[EmptyWorld EXCEPT !.files = f, !.out_ok = o] :
             f \in {NoFiles, OneFile(FirstName, Image(1080, 1920, 1)),
                    OneFile(FirstName, Corrupt),
                    [n \in {FirstName, SecondName} |->
                        IF n = FirstName THEN Corrupt ELSE Image(1080, 1920, 1)],
                    [n \in {FirstName, SecondName} |->
                        IF n = FirstName THEN OutOfMemory ELSE Image(1080, 1920, 1)]},
             o \in BOOLEAN}

Started(run) == [pc |-> "start", argv |-> run.argv, args |-> parse_arguments(run.argv),
                 file |-> run.file, exit_code |-> None, raised |-> "none"]

\* No run of main is under way.
NotRunning == [NoMain EXCEPT !.pc = "idle"]

MainInit ==
    /\ fit = NoFitCall
    /\ config = DefaultConfig
    /\ world = EmptyWorld
    /\ written = {}
    /\ call = NoImageCall
    /\ made = NoConstruction
    /\ results = <<>>
    /\ batch = NoBatch
    /\ main = NotRunning
    /\ prev = None
    /\ logged = NoLogCall
    /\ cm = NoManager

\* main is run: on some command line, configuration file and file system.
MainStart ==
    /\ main.pc = "idle"
    /\ \E run \in Runs : main' = Started(run)
    /\ world' \in MainWorlds
    /\ UNCHANGED <<fit, config, written, call, made, results, batch, prev, logged, cm>>

\* The process exits: the caller notes how the run ended and its exit
\* status; a later run starts afresh.
MainExit ==
    /\ main.pc = "done"
    /\ prev = None
    /\ prev' = Some([outcome |-> Outcome, exit_code |-> main.exit_code[1]])
    /\ main' = NotRunning
    /\ world' = EmptyWorld
    /\ config' = DefaultConfig
    /\ written' = {}
    /\ results' = <<>>
    /\ batch' = NoBatch
    /\ UNCHANGED <<fit, call, made, logged, cm>>

MainNext ==
    \/ MainStart
    \/ MainLoadConfiguration
    \/ MainValidateSetup
    \/ MainProcessDirectory
    \/ ProcessDirectoryStep
    \/ ProcessDirectoryReturn
    \/ MainFinish
    \/ MainExit

SpecMain == MainInit /\ [][MainNext]_vars

(***************************************************************************)
(* The exception handlers on their own: an exception of any class leaves   *)
(* the try body of main at some position, and log_exception is called on   *)
(* an exception of any class.                                              *)
(***************************************************************************)
Exceptions ==
    {"ConfigError", "logger.ConfigError", "PathError", "ProcessingError", "FatalError",
     "AttributeError", "KeyError", "MemoryError", "OSError", "TypeError", "ValueError"}
\* The positions of main inside its try block.
TryPositions == {"start", "constructed", "running"}

ExitInit ==
    /\ fit = NoFitCall
    /\ config = DefaultConfig
    /\ world = EmptyWorld
    /\ written = {}
    /\ call = NoImageCall
    /\ made = NoConstruction
    /\ results = <<>>
    /\ batch = NoBatch
    /\ \E pc \in TryPositions, class \in Exceptions :
          main = [NoMain EXCEPT !.pc = pc, !.raised = class]
    /\ prev = None
    /\ logged \in [exception : Exceptions, ret : {None}]
    /\ cm = NoManager

\* The exception main.raised leaves the try body: the except clauses.
MainExcept ==
    /\ main.pc \in TryPositions
    /\ main.raised # "none"
    /\ main' = Exits(main.raised, ExitCode(main.raised))
    /\ UNCHANGED <<fitVars, genVars, prev, logged, cfgVars>>

\* log_exception(logger, logged.exception)
CallLogException ==
    /\ logged.exception # "none" /\ logged.ret = None
    /\ logged' = [logged EXCEPT !.ret = Some(log_exception(logged.exception))]
    /\ UNCHANGED <<fitVars, genVars, main, prev, cfgVars>>

ExitNext == MainExcept \/ CallLogException

SpecExit == ExitInit /\ [][ExitNext]_vars

(***************************************************************************)
(* config.py: the configuration as Python holds it, a dictionary of        *)
(* sections that are dictionaries themselves.  A dictionary is an object:  *)
(* `heap` holds the section objects, and a top-level dictionary maps the   *)
(* names of its sections to their places in the heap.                      *)
(***************************************************************************)
MaxObjects == 4     \* the heap holds at most MaxObjects section dictionaries
Sections == {"tablet", "paths", "processing"}

\* The sections of a loaded mapping that hold a key.
SectionsOf(m) ==
    {s \in Sections :
        \/ s = "tablet" /\ m.tablet_size # None
        \/ s = "paths" /\ (m.input_dir # None \/ m.output_dir # None)
        \/ s = "processing" /\ \/ m.jpeg_quality # None
                               \/ m.size_threshold_mb # None
                               \/ m.background_color.kind # "absent"}

\* The section objects of a loaded mapping, and its top-level dictionary.
SectionObjects(m) ==
    << [size |-> m.tablet_size],
       [input_dir |-> m.input_dir, output_dir |-> m.output_dir],
       [jpeg_quality |-> m.jpeg_quality, size_threshold_mb |-> m.size_threshold_mb,
        background_color |-> m.background_color] >>
TopLevel(m) ==
    [s \in SectionsOf(m) |-> CASE s = "tablet" -> 1 [] s = "paths" -> 2 [] OTHER -> 3]

\* d.get(section, {}).get(key): what a reader of the top-level dictionary
\* `top` finds, key by key (None for an absent section or key).
Lookup(top, heap) ==
    LET Has(s) == s \in DOMAIN top
        absent == [kind |-> "absent", val |-> <<>>]
    IN  [tablet_size |-> IF Has("tablet") THEN heap[top.tablet].size ELSE None,
         input_dir |-> IF Has("paths") THEN heap[top.paths].input_dir ELSE None,
         output_dir |-> IF Has("paths") THEN heap[top.paths].output_dir ELSE None,
         jpeg_quality |->
            IF Has("processing") THEN heap[top.processing].jpeg_quality ELSE None,
         size_threshold_mb |->
            IF Has("processing") THEN heap[top.processing].size_threshold_mb ELSE None,
         background_color |->
            IF Has("processing") THEN heap[top.processing].background_color ELSE absent]


\* dict.copy(): a new top-level dictionary that refers to the same section
\* objects.
dict_copy(top, heap) == [copy |-> top, heap |-> heap]

\* The manager as validate_config, get_processing_config and to_dict read it.
ManagerView(self) ==
    [config |-> Mapping(Lookup(self.config, self.heap)), tablet_size |-> self.tablet_size]

\* get_processing_config: the processing section, the defaults without one.
get_processing_config(self) ==
    IF "processing" \in DOMAIN self.config THEN self.heap[self.config.processing]
    ELSE [jpeg_quality |-> Some(95), size_threshold_mb |-> Some(8),
          background_color |-> [kind |-> "list", val |-> <<0, 0, 0>>]]

\* The assignments a holder of the exported dictionary makes:
\* exported[section][key] = value and exported[section] = {...}.
KeyChanges ==
    {[section |-> "tablet", key |-> "size", value |-> Some("10inch")],
     [section |-> "tablet", key |-> "size", value |-> Some("15inch")],
     [section |-> "paths", key |-> "input_dir", value |-> Some("elsewhere")],
     [section |-> "processing", key |-> "jpeg_quality", value |-> Some(0)]}
SectionChanges ==
    {[section |-> "tablet", value |-> [size |-> Some("15inch")]],
     [section |-> "paths",
      value |-> [input_dir |-> Some("elsewhere"), output_dir |-> None]]}

\* ConfigManager(config_path, tablet_size) on a file that loads.
ConfigInit ==
    /\ fit = NoFitCall
    /\ config = DefaultConfig
    /\ world = EmptyWorld
    /\ written = {}
    /\ call = NoImageCall
    /\ made = NoConstruction
    /\ results = <<>>
    /\ batch = NoBatch
    /\ main = NoMain
    /\ prev = None
    /\ logged = NoLogCall
    /\ \E config_path \in {None, Some("config.yaml")}, tablet_size \in DEFAULT_PRESETS,
          m \in YamlMaps :
          LET self == ConfigManager(config_path, tablet_size, Mapping(m))
              loaded == self.val.config.map
          IN  /\ config_path = None => m = CHOOSE first \in YamlMaps : TRUE
              /\ cm = [config |-> TopLevel(loaded), tablet_size |-> tablet_size,
                       heap |-> SectionObjects(loaded), exported |-> None,
                       original |-> loaded]

\* exported = config_manager.to_dict()
CallToDict ==
    /\ cm.exported = None
    /\ LET d == dict_copy(cm.config, cm.heap)
       IN  cm' = [cm EXCEPT !.exported = Some(d.copy), !.heap = d.heap]
    /\ UNCHANGED <<fitVars, genVars, mainVars>>

\* exported[section][key] = value
SetExportedKey ==
    /\ cm.exported # None
    /\ \E c \in KeyChanges :
          /\ c.section \in DOMAIN cm.exported[1]
          /\ cm' = [cm EXCEPT !.heap[cm.exported[1][c.section]][c.key] = c.value]
    /\ UNCHANGED <<fitVars, genVars, mainVars>>

\* exported[section] = {...}
SetExportedSection ==
    /\ cm.exported # None
    /\ Len(cm.heap) < MaxObjects
    /\ \E c \in SectionChanges :
          LET top == cm.exported[1]
          IN  cm' = [cm EXCEPT
                      !.heap = Append(@, c.value),
                      !.exported = Some([s \in DOMAIN top \cup {c.section} |->
                                           IF s = c.section THEN Len(cm.heap) + 1
                                           ELSE top[s]])]
    /\ UNCHANGED <<fitVars, genVars, mainVars>>

ConfigNext == CallToDict \/ SetExportedKey \/ SetExportedSection

SpecConfig == ConfigInit /\ [][ConfigNext]_vars

(***************************************************************************)
(* Claims about the dimension fitter (SpecFit).                            *)
(***************************************************************************)
FitCalled == fit.out # NoCall
FitBoundsPositive == fit.max_width >= 1 /\ fit.max_height >= 1
\* width_scale <= height_scale: the width is the limiting dimension.
WidthLimits == fit.self.width * fit.max_height >= fit.self.height * fit.max_width
HeightLimits == fit.self.width * fit.max_height <= fit.self.height * fit.max_width

\* C1: whenever scale_to_fit returns dimensions for bounds >= 1, the width
\* is at most max_width and the height at most max_height.
C1_FitWithinBounds ==
    (FitBoundsPositive /\ fit.out.ok) =>
        /\ fit.out.width <= fit.max_width
        /\ fit.out.height <= fit.max_height

\* A returned fit whose non-limiting side was rounded up.
C1_Witness ==
    /\ FitBoundsPositive /\ fit.out.ok
    /\ \/ fit.out.height * fit.self.width > fit.self.height * fit.max_width /\ WidthLimits
       \/ fit.out.width * fit.self.height > fit.self.width * fit.max_height /\ HeightLimits

\* round(n / d, 2) in hundredths.
Round2(n, d) == PyRound(100 * n, d, IsDyadic(n, d))

\* C6 as stated: the returned dimensions have the original's aspect ratio
\* to two decimals, round(w / h, 2) = round(O.width / O.height, 2).
C6_RatioEqualToTwoDecimals ==
    (FitBoundsPositive /\ fit.out.ok) =>
        Round2(fit.out.width, fit.out.height)
            \cap Round2(fit.self.width, fit.self.height) # {}

\* C6 amended: the aspect ratio is kept up to the rounding of one side to
\* whole pixels: the returned width and height differ from the exactly
\* scaled ones by at most half a pixel.
C6_RatioWithinHalfPixel ==
    (FitBoundsPositive /\ fit.out.ok) =>
        LET s == FitScale(fit.self, fit.max_width, fit.max_height)
        IN  /\ 2 * Abs(fit.out.width * s[2] - fit.self.width * s[1]) <= s[2]
            /\ 2 * Abs(fit.out.height * s[2] - fit.self.height * s[1]) <= s[2]

\* A returned fit one of whose sides is not a whole number before rounding.
C6_Witness ==
    /\ FitBoundsPositive /\ fit.out.ok
    /\ LET s == FitScale(fit.self, fit.max_width, fit.max_height)
       IN  (fit.self.height * s[1]) % s[2] # 0 \/ (fit.self.width * s[1]) % s[2] # 0

\* C7: the limiting dimension reaches its bound exactly, for originals
\* larger and smaller than the bounds; an original with the canvas aspect
\* ratio fits to the canvas with offset (0, 0); 1920x1080 on 1080x1920 fits
\* to 1080x608 with padding only above and below.
C7_LimitingSideFillsBound ==
    /\ (FitBoundsPositive /\ fit.out.ok) =>
          /\ WidthLimits => fit.out.width = fit.max_width
          /\ HeightLimits => fit.out.height = fit.max_height
    /\ scale_to_fit(Dims(1080, 1920), 1080, 1920) = {ImageDimensions(1080, 1920)}
    /\ scale_to_fit(Dims(2160, 3840), 1080, 1920) = {ImageDimensions(1080, 1920)}
    /\ scale_to_fit(Dims(540, 960), 1080, 1920) = {ImageDimensions(1080, 1920)}
    /\ PasteOffset(1080, 1920, 1080, 1920) = <<0, 0>>
    /\ scale_to_fit(Dims(1920, 1080), 1080, 1920) = {ImageDimensions(1080, 608)}
    /\ PasteOffset(1080, 1920, 1080, 608) = <<0, 656>>
    /\ 1920 - 608 - 656 = 656

\* An original smaller than both bounds was enlarged to fill one of them.
C7_Witness ==
    /\ fit.out.ok
    /\ fit.self.width < fit.max_width /\ fit.self.height < fit.max_height
    /\ fit.out.width > fit.self.width /\ fit.out.height > fit.self.height
    /\ fit.self.width # fit.self.height

\* C8 as stated: for bounds >= 1 scale_to_fit returns dimensions >= 1 inside
\* the bounds for every original, a side that rounds to 0 being clamped to 1:
\* no error and no zero-sized result.
C8_AlwaysPositiveResult ==
    (FitBoundsPositive /\ FitCalled) =>
        /\ fit.out.ok
        /\ 1 <= fit.out.width /\ fit.out.width <= fit.max_width
        /\ 1 <= fit.out.height /\ fit.out.height <= fit.max_height

(***************************************************************************)
(* Claims about process_image and ProcessingResult (SpecImage).            *)
(***************************************************************************)
ImageCalled == call.active /\ call.out # NotCalled
FileExists == call.path.dir = InputDir /\ call.path.name \in DOMAIN world.files
TheFile == world.files[call.path.name]

\* The configuration lets no per-file job be built.
JobFails ==
    \/ config.tablet_size \notin {None, Some("7inch"), Some("10inch")}
    \/ config.jpeg_quality # None
         /\ ~(1 <= config.jpeg_quality[1] /\ config.jpeg_quality[1] <= 100)
    \/ config.background_color.kind = "scalar"
    \/ config.background_color.kind = "list"
         /\ \/ Len(config.background_color.val) # 3
            \/ \E k \in 1..Len(config.background_color.val) :
                  config.background_color.val[k] \notin 0..255

\* Some stage of the pipeline fails for the file of the call.
StageFails ==
    \/ ~FileExists
    \/ TheFile.fault # NoFault
    \/ TheFile.width \notin 100..8000 \/ TheFile.height \notin 100..8000
    \/ ~world.out_ok

ResultInvariant(r) ==
    /\ r.success => r.error = None
    /\ ~r.success => r.error # None
    /\ r.file_size_mb = None \/ r.file_size_mb[1] >= 0

\* C2: process_image returns a ProcessingResult and never raises, whatever
\* the input path and the configuration; when building the job or a stage
\* fails, and for a nonexistent input path, the result has success = FALSE
\* and an error.
C2_ProcessImageNeverRaises ==
    ImageCalled =>
        /\ ~call.out.raised
        /\ call.out.val.input_file = call.path
        /\ (JobFails \/ StageFails) =>
              ~call.out.val.success /\ call.out.val.error # None
        /\ ~(JobFails \/ StageFails) => call.out.val.success

\* A call under a configuration whose background colour is no list: the
\* TypeError raised while the job is built came back as a failed result.
C2_Witness ==
    /\ ImageCalled /\ config.background_color.kind = "scalar"
    /\ config.tablet_size = None /\ FileExists
    /\ ~call.out.raised /\ ~call.out.val.success

Constructed == made.active /\ made.out # NotCalled
ViolatesResultInvariant(a) ==
    \/ a.success /\ a.error # None
    \/ ~a.success /\ a.error = None
    \/ a.file_size_mb # None /\ a.file_size_mb[1] < 0

\* C5: a ProcessingResult exists only with success => error absent, failure
\* => error present, and file_size_mb absent or >= 0: constructing one that
\* violates any of the three raises ProcessingError, and every result that
\* process_image and process_screenshot return satisfies all three.
C5_ResultInvariant ==
    /\ Constructed =>
          /\ made.out.raised <=> ViolatesResultInvariant(made.args)
          /\ made.out.raised => made.out.exc = "ProcessingError"
          /\ ~made.out.raised =>
                /\ ResultInvariant(made.out.val)
                /\ made.out.val.success = made.args.success
                /\ made.out.val.error = made.args.error
    /\ (ImageCalled /\ ~call.out.raised) => ResultInvariant(call.out.val)

\* A failed result without an error message was refused.
C5_Witness ==
    /\ Constructed /\ ~made.args.success /\ made.args.error = None
    /\ made.args.file_size_mb = None /\ made.out.raised

(***************************************************************************)
(* Claims about process_directory (SpecBatch).                             *)
(***************************************************************************)
Matching == {n \in DOMAIN world.files : EndsWith(n, JpgSuffix)}
Returned == batch.pc = "returned"
ReturnedList == batch.ret[1]
\* The input directory passes validate_input_dir and can be scanned.
Accessible == InputDirAccessible(world, batch.input_dir) /\ world.scan_ok
\* No earlier call on this generator has written into the input directory:
\* its files are as `world` has them.
InputAsFound ==
    ~batch.again \/ get_output_path(config, PathIn(InputDir, <<>>)).dir # InputDir
\* process_image succeeds on the file called `name`.
FileSucceeds(name) ==
    /\ config.jpeg_quality \in {None} \cup {Some(q) : q \in 1..100}
    /\ world.files[name].fault = NoFault
    /\ world.files[name].width \in 100..8000
    /\ world.files[name].height \in 100..8000
    /\ world.out_ok

\* C3: for an accessible input directory process_directory returns exactly
\* one result per file matching *.jpg, the i-th result for the i-th file in
\* ascending lexicographic order of the names, a failed file as a failed
\* result, every later file still processed; the loop never raises.
C3_OneResultPerFileInOrder ==
    /\ Accessible => batch.pc # "raised"
    /\ (Returned /\ Accessible) =>
          /\ Len(ReturnedList) = Cardinality(Matching)
          /\ {ReturnedList[k].input_file.name : k \in 1..Len(ReturnedList)} = Matching
          /\ \A k \in 1..Len(ReturnedList) :
                /\ ReturnedList[k].input_file.dir = batch.input_dir
                /\ InputAsFound =>
                      (ReturnedList[k].success
                          <=> FileSucceeds(ReturnedList[k].input_file.name))
                /\ \A j \in 1..(k - 1) :
                      LexLess(ReturnedList[j].input_file.name,
                              ReturnedList[k].input_file.name)

\* A returned list of two results, the first failed, the second succeeded.
C3_Witness ==
    /\ Returned /\ Accessible
    /\ Len(ReturnedList) = 2
    /\ ~ReturnedList[1].success /\ ReturnedList[2].success

(***************************************************************************)
(* Claims about main (SpecMain).                                           *)
(***************************************************************************)
MainDone == main.pc = "done"
\* The configuration main works on: the file's mapping, the defaults
\* without --config.
GivenMap == IF main.args.config = None THEN load_defaults(main.args.tablet_size).map
            ELSE main.file.map
ConfigurationLoads == main.args.config # None => main.file.kind = "mapping"
\* An invalid tablet size, a quality outside 1..100, a non-positive size
\* threshold, or no input / output directory from file or command line.
ConfigurationInvalid ==
    /\ main.pc \in {"start", "constructed", "running", "done"}
    /\ ConfigurationLoads
    /\ \/ GivenMap.tablet_size # None /\ GivenMap.tablet_size[1] \notin {"7inch", "10inch"}
       \/ GivenMap.jpeg_quality # None /\ GivenMap.jpeg_quality[1] \notin 1..100
       \/ GivenMap.size_threshold_mb # None /\ GivenMap.size_threshold_mb[1] <= 0
       \/ GivenMap.input_dir = None /\ main.args.input = None
       \/ GivenMap.output_dir = None /\ main.args.output = None
ProcessDirectoryCalled == batch.pc \in {"loop", "returned", "raised"}

\* C4: the exit status of main separates the four outcome classes "every
\* file succeeded", "some file failed", "could not start" and "unexpected
\* fatal error": two runs that end in different classes end with different
\* exit codes.
C4_ExitCodesDistinct ==
    LET Classes == {"all succeeded", "some failed", "could not start", "fatal"}
    IN  (MainDone /\ prev # None /\ Outcome \in Classes /\ prev[1].outcome \in Classes
            /\ prev[1].outcome # Outcome)
        => prev[1].exit_code # main.exit_code[1]

\* C9: with a valid configuration, an input directory that is missing or
\* cannot be read, or an output directory that cannot be written, ends the
\* run with exit code 2 (PathError) and without any file processed.
C9_PathErrorBeforeProcessing ==
    (/\ MainDone
     /\ ~LoadConfiguration(main.args, main.file).raised
     /\ \/ ~InputDirAccessible(world, config.input_dir[1])
        \/ ~world.scan_ok
        \/ ~world.out_ok)
    => (main.exit_code = Some(2) /\ results = <<>> /\ written = {})

\* C10: a run whose configuration has an invalid tablet size, a JPEG quality
\* outside 1..100, a non-positive size threshold or no input / output
\* directory never calls process_directory, processes no file, writes no
\* output, and ends with the exit code of ConfigError, 1.
C10_InvalidConfigurationRejected ==
    ConfigurationInvalid =>
        /\ ~ProcessDirectoryCalled
        /\ results = <<>>
        /\ written = {}
        /\ MainDone => (main.raised = "ConfigError" /\ main.exit_code = Some(1))

\* A finished run on a directory with a good file whose configuration file
\* asks for quality 101, rejected with exit code 1.
C10_Witness ==
    /\ MainDone
    /\ ConfigurationInvalid
    /\ main.args.config # None
    /\ main.file.map.jpeg_quality = Some(101)
    /\ main.args.input = Some(InputDir) /\ main.args.output = Some("out")
    /\ world.in_ok /\ world.out_ok /\ DOMAIN world.files # {}
    /\ main.exit_code = Some(1)

\* The file called `name` meets, while it is processed, an exception that
\* no stage turns into a ProcessingError.
MeetsUnclassifiedError(name) ==
    LET f == world.files[name].fault
    IN  f # NoFault /\ StageRaises(f.stage, f.class) # "ProcessingError"

\* C11: a run whose first file meets an exception other than
\* ProcessingError (a MemoryError while the image is loaded) is aborted:
\* the files after it are not processed and main ends with exit code 10.
C11_UnclassifiedErrorAbortsRun ==
    (/\ MainDone
     /\ ProcessDirectoryCalled
     /\ Accessible
     /\ FirstName \in DOMAIN world.files
     /\ world.files[FirstName].fault.stage = "load"
     /\ MeetsUnclassifiedError(FirstName))
    => /\ main.exit_code = Some(10)
       /\ \A k \in 1..Len(results) : results[k].input_file.name # SecondName

\* C12: a run on an accessible input directory without any *.jpg file gets
\* the empty list from process_directory, counts total = success = failed
\* = 0, and ends with the exit status of a run without failures, 0.
C12_EmptyDirectoryIsSuccess ==
    (MainDone /\ ProcessDirectoryCalled /\ Accessible /\ Matching = {})
    => /\ batch.ret = Some(<<>>)
       /\ get_processing_stats(results) = [total |-> 0, success |-> 0, failed |-> 0]
       /\ main.exit_code = Some(0)

(***************************************************************************)
(* Claims about the statistics and the summary (SpecBatch).                *)
(***************************************************************************)
Summarised == batch.summary # None
Summary == batch.summary[1]
\* The number of failed results of a list, counted one result at a time.
RECURSIVE CountFailed(_)
CountFailed(rs) ==
    IF rs = <<>> THEN 0
    ELSE (IF Head(rs).success THEN 0 ELSE 1) + CountFailed(Tail(rs))

\* C13: print_summary returns 0 exactly when no result of the generator's
\* list has success = false, the empty list included, and 1 when at least
\* one result failed, whatever the order and the number of successes.
C13_SummaryCodeFromFailures ==
    Summarised =>
        /\ Summary.exit_code \in {0, 1}
        /\ Summary.exit_code = 0 <=> (\A k \in 1..Len(results) : results[k].success)
        /\ Summary.exit_code = 1 <=> CountFailed(results) >= 1

\* A summary of a list whose first result failed and whose second
\* succeeded, with exit code 1.
C13_Witness ==
    /\ Summarised
    /\ Len(results) = 2
    /\ ~results[1].success /\ results[2].success
    /\ Summary.exit_code = 1

\* C14: get_processing_stats returns total = the number of results,
\* success = the number with success = true, failed = the number with
\* success = false; success + failed = total and none is negative; all are
\* zero for the empty list.
C14_StatsTally ==
    Summarised =>
        /\ Summary.stats.total = Len(results)
        /\ Summary.stats.failed = CountFailed(results)
        /\ Summary.stats.success = Len(results) - CountFailed(results)
        /\ Summary.stats.success + Summary.stats.failed = Summary.stats.total
        /\ Summary.stats.total >= 0 /\ Summary.stats.success >= 0
        /\ Summary.stats.failed >= 0
        /\ results = <<>> => Summary.stats = [total |-> 0, success |-> 0, failed |-> 0]

\* The statistics of a returned list with one success and one failure.
C14_Witness ==
    /\ Summarised
    /\ batch.pc = "returned"
    /\ Summary.stats = [total |-> 2, success |-> 1, failed |-> 1]

(***************************************************************************)
(* Claims about the written output (SpecImage, SpecBatch).                 *)
(***************************************************************************)
\* <output_dir>/<input file name>, "output" when no directory is configured.
MirroredPath(path) ==
    PathIn(IF config.output_dir = None THEN "output" ELSE config.output_dir[1], path.name)
\* The tablet of the configuration: both presets are 1080 x 1920.
TabletSize == <<1080, 1920>>

\* C15: when process_image reports success, a JPEG file is at
\* <output_dir>/<input file name>, result.output_file is that path, and the
\* written image has exactly the tablet's width and height, whatever the
\* size of the input.
C15_SuccessWritesTabletSizedJpeg ==
    (ImageCalled /\ ~call.out.raised /\ call.out.val.success) =>
        /\ call.out.val.output_file = MirroredPath(call.path)
        /\ \E f \in written :
              /\ f.path = MirroredPath(call.path)
              /\ f.file.format = "JPEG"
              /\ <<f.file.image.width, f.file.image.height>> = TabletSize

\* A successful call on a landscape 1920 x 1080 input: the image is scaled
\* to 1080 x 608 and the file written is 1080 x 1920.
C15_Witness ==
    /\ ImageCalled /\ ~call.out.raised /\ call.out.val.success
    /\ FileExists /\ TheFile.width = 1920 /\ TheFile.height = 1080
    /\ call.out.val.scaled_dimensions = Some(<<1080, 608>>)
    /\ \E f \in written : f.path = MirroredPath(call.path) /\ f.file.image.width = 1080

\* The files that existed before the run started: those of the input
\* directory.
ExistedBefore(path) ==
    path.dir = InputDir /\ world.in_ok /\ path.name \in DOMAIN world.files

\* C16: the output directory is written append-only: every successfully
\* processed input adds one file, and no file that existed before the run,
\* in particular no input file, is overwritten, whatever the configured
\* input and output directories.
C16_OutputAppendOnly ==
    /\ \A f \in written : ~ExistedBefore(f.path)
    /\ Cardinality(written) >= Cardinality({k \in 1..Len(results) : results[k].success})

CalledAgain == call.active /\ call.again # NotCalled

\* C17: process_image called a second time on the same input path with the
\* same configuration returns the same ProcessingResult and leaves the same
\* bytes at the output path as the first call; and a written canvas, read
\* back, has exactly the tablet's width and height.
C17_RerunSameResultAndOutput ==
    /\ CalledAgain =>
          /\ call.again = call.out
          /\ FileAt(written, MirroredPath(call.path)) = call.first_file
    /\ \A f \in written :
          LET back == FileSystem([world EXCEPT !.in_ok = TRUE],
                                 {[f EXCEPT !.path.dir = InputDir]}).files[f.path.name]
          IN  <<back.width, back.height>> = TabletSize

\* The same statement for an output directory other than the input
\* directory.
RerunSameWhenDirectoriesDiffer ==
    (CalledAgain /\ config.output_dir # Some(InputDir)) =>
          /\ call.again = call.out
          /\ FileAt(written, MirroredPath(call.path)) = call.first_file

\* The call reaches validate_image: the job is built and the file loads.
ReachesValidate ==
    /\ ImageCalled /\ FileExists /\ ~JobFails
    /\ TheFile.fault.stage \notin {"load", "validate"}
OutsideLimits(width, height) ==
    width < 100 \/ height < 100 \/ width > 8000 \/ height > 8000

\* C18: validate_image with the default limits fails exactly when the
\* width or the height is below 100 or above 8000, and otherwise returns
\* ImageDimensions of the image's width and height; 100 and 8000 are
\* accepted on either side, and a height below 100 is rejected.
C18_ValidateImageLimits ==
    /\ ReachesValidate =>
          LET d == validate_image(TheFile.width, TheFile.height)
          IN  /\ ~d.ok <=> OutsideLimits(TheFile.width, TheFile.height)
              /\ ~d.ok => d.exc = "ProcessingError"
              /\ d.ok => (d.width = TheFile.width /\ d.height = TheFile.height)
              /\ (call.out.val.error = ErrorText(FALSE, "validate"))
                    <=> OutsideLimits(TheFile.width, TheFile.height)
    /\ validate_image(100, 100) = ImageDimensions(100, 100)
    /\ validate_image(8000, 8000) = ImageDimensions(8000, 8000)
    /\ validate_image(100, 8000) = ImageDimensions(100, 8000)
    /\ ~validate_image(100, 99).ok /\ ~validate_image(99, 100).ok
    /\ ~validate_image(8000, 8001).ok /\ ~validate_image(8001, 8000).ok

\* A call on an image 1080 wide and 99 high: rejected by validate_image.
C18_Witness ==
    /\ ReachesValidate
    /\ TheFile.width = 1080 /\ TheFile.height = 99
    /\ ~call.out.val.success
    /\ call.out.val.error = ErrorText(FALSE, "validate")

(***************************************************************************)
(* Claims about the padding and about invalid bounds (SpecFit).            *)
(***************************************************************************)
Padded == fit.canvas # None
Canvas == fit.canvas[1]
PadLeft == Canvas.offset[1]
PadTop == Canvas.offset[2]
PadRight == Canvas.width - Canvas.pasted.width - PadLeft
PadBottom == Canvas.height - Canvas.pasted.height - PadTop

\* C19: the canvas of create_padded_image has exactly the tablet's width
\* and height; a resized image no larger than the tablet is pasted with
\* floor(diff / 2) pixels to its left and above it and ceil(diff / 2) to
\* its right and below it, so the paddings of one axis differ by at most
\* one pixel and an odd pixel goes to the right or the bottom.
C19_CanvasSizeAndCentering ==
    Padded =>
        /\ Canvas.width = fit.max_width /\ Canvas.height = fit.max_height
        /\ Canvas.pasted.width = fit.out.width /\ Canvas.pasted.height = fit.out.height
        /\ (Canvas.pasted.width <= Canvas.width /\ Canvas.pasted.height <= Canvas.height) =>
              /\ PadLeft >= 0 /\ PadTop >= 0
              /\ PadRight - PadLeft \in {0, 1}
              /\ PadBottom - PadTop \in {0, 1}
              /\ PadLeft + Canvas.pasted.width + PadRight = Canvas.width
              /\ PadTop + Canvas.pasted.height + PadBottom = Canvas.height

\* A canvas on which the image has one pixel more to its right than to
\* its left.
C19_Witness ==
    /\ Padded
    /\ Canvas.pasted.width < Canvas.width
    /\ PadRight = PadLeft + 1

\* C20: scale_to_fit called with max_width <= 0 or max_height <= 0 raises
\* ProcessingError for every original and returns no dimensions; the call
\* leaves the original ImageDimensions as it was.
C20_InvalidBoundsRejected ==
    /\ []((FitCalled /\ ~FitBoundsPositive) =>
            (~fit.out.ok /\ fit.out = Raised("ProcessingError")))
    /\ [][fit'.self = fit.self]_vars

\* A call with max_width = 0 and a positive max_height, and its error.
C20_Witness ==
    /\ FitCalled
    /\ fit.max_width = 0 /\ fit.max_height > 0
    /\ fit.out.exc = "ProcessingError"

(***************************************************************************)
(* Claims about the configuration priority (SpecMain).                     *)
(***************************************************************************)
\* main has built its final configuration and constructed the generator.
GeneratorConstructed ==
    main.pc \in {"constructed", "running", "done"} /\ batch.pc # "none"
\* The mapping of the YAML file of the run; without --config, no key is set.
YamlMap ==
    IF main.argv.config = None
    THEN [tablet_size |-> None, input_dir |-> None, output_dir |-> None,
          jpeg_quality |-> None]
    ELSE main.file.map
\* Command line first, then the file, then the default.
Priority(cli, yaml, default) ==
    IF cli # None THEN cli ELSE IF yaml # None THEN yaml ELSE default
\* The value the generator reads for a key: the default for an absent key.
Effective(value, default) == IF value = None THEN default ELSE value

\* C21: for tablet size, input directory, output directory and JPEG
\* quality, the final configuration of main holds the command-line value
\* when the option was given, otherwise the value of the YAML file,
\* otherwise the default ("7inch", quality 95).
C21_CliOverYamlOverDefaults ==
    GeneratorConstructed =>
        /\ Effective(config.tablet_size, Some("7inch"))
              = Priority(main.argv.tablet_size, YamlMap.tablet_size, Some("7inch"))
        /\ config.input_dir = Priority(main.argv.input, YamlMap.input_dir, None)
        /\ config.output_dir = Priority(main.argv.output, YamlMap.output_dir, None)
        /\ Effective(config.jpeg_quality, Some(95))
              = Priority(main.argv.quality, YamlMap.jpeg_quality, Some(95))

\* The three keys other than the tablet size follow the priority.
PathsAndQualityFollowPriority ==
    GeneratorConstructed =>
        /\ config.input_dir = Priority(main.argv.input, YamlMap.input_dir, None)
        /\ config.output_dir = Priority(main.argv.output, YamlMap.output_dir, None)
        /\ Effective(config.jpeg_quality, Some(95))
              = Priority(main.argv.quality, YamlMap.jpeg_quality, Some(95))

(***************************************************************************)
(* Claims about the exception handlers (SpecExit).                         *)
(***************************************************************************)
LogExceptionCalled == logged.ret # None

\* C22: main returns 1 when a ConfigError leaves its try body, 2 for a
\* PathError, 3 for a ProcessingError, 10 for a FatalError and 10 for every
\* other exception; log_exception returns the exit_code of the exception
\* (1, 2, 3, 10 for the four kinds) and 1 for an exception without one.
C22_ExitCodeByErrorKind ==
    /\ MainDone =>
          main.exit_code[1] = CASE main.raised = "ConfigError" -> 1
                                [] main.raised = "PathError" -> 2
                                [] main.raised = "ProcessingError" -> 3
                                [] main.raised = "FatalError" -> 10
                                [] OTHER -> 10
    /\ LogExceptionCalled =>
          logged.ret[1] = CASE logged.exception \in {"ConfigError", "logger.ConfigError"} -> 1
                            [] logged.exception = "PathError" -> 2
                            [] logged.exception = "ProcessingError" -> 3
                            [] logged.exception = "FatalError" -> 10
                            [] OTHER -> 1

C22_Witness ==
    /\ MainDone /\ main.raised = "ValueError" /\ main.exit_code = Some(10)
    /\ LogExceptionCalled /\ logged.exception = "ValueError" /\ logged.ret = Some(1)

(***************************************************************************)
(* Claims about the exported configuration (SpecConfig).                   *)
(***************************************************************************)
Exported == cm.exported # None
\* The manager as it was constructed.
Original ==
    [config |-> TopLevel(cm.original), tablet_size |-> cm.tablet_size,
     heap |-> SectionObjects(cm.original)]
\* to_dict(), read key by key.
NewToDict(self) ==
    LET d == dict_copy(self.config, self.heap) IN Lookup(d.copy, d.heap)

\* C23: no change of the dictionary that to_dict returned, nested sections
\* included, changes the configuration of the ConfigManager:
\* validate_config, get_processing_config and a new to_dict see the
\* original values.
C23_ExportedCopyIsIndependent ==
    Exported =>
        /\ validate_config(ManagerView(cm)) = validate_config(ManagerView(Original))
        /\ get_processing_config(cm) = get_processing_config(Original)
        /\ NewToDict(cm) = NewToDict(Original)

\* A change of the top level of the exported dictionary (a section is
\* replaced or added) leaves the manager as it was.
TopLevelChangeIsLocal ==
    [][cm.exported' # cm.exported /\ cm.exported # None
          => ManagerView(cm)' = ManagerView(cm)]_vars

(***************************************************************************)
(* Claims about the size diagnostic (SpecImage).                           *)
(***************************************************************************)
\* processing.size_threshold_mb, 8.0 when the key is absent.
SizeThreshold ==
    IF config.size_threshold_mb = None THEN 8 ELSE config.size_threshold_mb[1]
Succeeded == ImageCalled /\ ~call.out.raised /\ call.out.val.success
\* A warning among the records logged for the file of the call.
SizeWarned == \E rec \in call.log : rec.level = "WARNING" /\ rec.file = call.path

\* C24: when a successfully written output is larger than
\* processing.size_threshold_mb (default 8.0 MB), a warning is logged for
\* the file, and the result stays a success with the file in place; for an
\* output at or below the threshold no size warning is logged.
C24_OversizeOutputWarned ==
    Succeeded =>
        /\ SizeWarned <=> call.out.val.file_size_mb[1] > SizeThreshold
        /\ call.first_file # None

\* The part of C24 that holds: an output above the threshold is a success
\* and its file is in place, and no warning is logged below the threshold.
OversizeOutputKept ==
    /\ (Succeeded /\ call.out.val.file_size_mb[1] <= SizeThreshold) => ~SizeWarned
    /\ (ImageCalled /\ FileExists /\ TheFile = Image(8000, 8000, 9) /\ world.out_ok
           /\ ~JobFails)
          => Succeeded /\ call.first_file # None

(***************************************************************************)
(* Claims about the per-file outcomes of a run (SpecBatchFair, SpecBatch).  *)
(***************************************************************************)
InLoop == batch.pc = "loop"
\* The k-th discovered file is Pending: it has no result yet.
Pending(k) == k > Len(results)
\* Every discovered file up to the loop's position has one result, its
\* own, and the files from the position on have none.
OneOutcomeEach ==
    /\ Len(results) = batch.next - 1
    /\ Len(results) <= Len(batch.screenshot_files)
    /\ \A k \in 1..Len(results) : results[k].input_file = batch.screenshot_files[k]
    /\ \A j, k \in 1..Len(batch.screenshot_files) :
          j # k => batch.screenshot_files[j] # batch.screenshot_files[k]
NoFilePending ==
    /\ Returned
    /\ \A k \in 1..Len(batch.screenshot_files) : ~Pending(k)
    /\ Len(results) = Len(batch.screenshot_files)

\* C25: within one run of process_directory every discovered file goes
\* from Pending to one outcome (a result with success true or false),
\* once: during the loop the results are those of the files before the
\* loop's position, in order, a step leaves every recorded result as it is
\* and records at most one more, and the run ends with a result for every
\* file.
C25_EachFileOneOutcomeOnce ==
    /\ [](InLoop => OneOutcomeEach)
    /\ [][InLoop => /\ Len(results') \in {Len(results), Len(results) + 1}
                    /\ SubSeq(results', 1, Len(results)) = results
                    /\ batch'.screenshot_files = batch.screenshot_files]_vars
    /\ (InLoop ~> NoFilePending)

\* A run of two files has ended: the first failed, the second succeeded.
C25_Witness ==
    /\ NoFilePending /\ Len(results) = 2
    /\ ~results[1].success /\ results[2].success

(***************************************************************************)
(* Claims about the stages of process_screenshot (SpecImage).              *)
(***************************************************************************)
\* process_image built the job and called process_screenshot, once.
ScreenshotCalled ==
    ImageCalled /\ ~JobFails /\ call.path # EmptyPath /\ call.again = NotCalled
SizeValid(c) == c.width \in 100..8000 /\ c.height \in 100..8000
\* The first stage, in the order load, validate, fit, resample, composite,
\* save, stat (the read of the output's size), that fails for the file of
\* the call; "none" when every stage succeeds.
FirstFailure ==
    IF ~FileExists \/ TheFile.fault.stage = "load" THEN "load"
    ELSE IF TheFile.fault.stage = "validate" \/ ~SizeValid(TheFile) THEN "validate"
    ELSE IF TheFile.fault.stage \in {"fit", "resample", "composite"}
    THEN TheFile.fault.stage
    ELSE IF ~world.out_ok \/ TheFile.fault.stage = "save" THEN "save"
    ELSE TheFile.fault.stage
BeforeSave == {"load", "validate", "fit", "resample", "composite"}
\* The stage the failed result of the call names.
FailedStage == call.out.val.error[1].stage

\* C26: process_screenshot runs load, validate, fit, resample, composite,
\* save in this order, each only after the earlier ones succeeded: the
\* result fails with the first stage that fails and succeeds when none
\* does; when a stage before save fails, no file has been written and the
\* parent directories of the output path have not been made.
C26_StagesInOrderOnlySaveWrites ==
    ScreenshotCalled =>
        /\ ~call.out.raised
        /\ call.out.val.success <=> FirstFailure = "none"
        /\ ~call.out.val.success => FailedStage = FirstFailure
        /\ FirstFailure \in BeforeSave => written = {} /\ ~call.mkdir
        /\ FirstFailure = "none" => written # {} /\ call.mkdir

\* An undersized file that also fails in composite fails in validate, and
\* a file that fails in composite with a writable output directory leaves
\* the disk as it was.
C26_Witness ==
    /\ ScreenshotCalled /\ FileExists /\ world.out_ok
    /\ TheFile.fault.stage = "composite"
    /\ FailedStage = (IF SizeValid(TheFile) THEN "composite" ELSE "validate")
    /\ written = {} /\ ~call.mkdir

(***************************************************************************)
(* Claims about the geometry inside process_screenshot (SpecPipeline).     *)
(***************************************************************************)
\* The fitted dimensions of a successful result, and the canvas it wrote.
Fitted == call.out.val.scaled_dimensions[1]
WrittenCanvas == call.first_file[1].image

\* C27: in process_screenshot with the limits 100..8000 and the preset of
\* get_tablet_preset (1080x1920), every image that passes validate_image is
\* fitted without failure, to 1 <= w <= 1080 and 1 <= h <= 1920, and pasted
\* at offsets >= 0 with offset + fitted size <= canvas size on each axis.
C27_ValidImageFitsInsideCanvas ==
    (ImageCalled /\ call.again = NotCalled /\ SizeValid(TheFile)) =>
        /\ ~call.out.raised /\ call.out.val.success
        /\ 1 <= Fitted[1] /\ Fitted[1] <= 1080
        /\ 1 <= Fitted[2] /\ Fitted[2] <= 1920
        /\ WrittenCanvas.pasted.width = Fitted[1]
        /\ WrittenCanvas.pasted.height = Fitted[2]
        /\ WrittenCanvas.offset[1] >= 0 /\ WrittenCanvas.offset[2] >= 0
        /\ WrittenCanvas.offset[1] + Fitted[1] <= WrittenCanvas.width
        /\ WrittenCanvas.offset[2] + Fitted[2] <= WrittenCanvas.height

\* The narrowest valid image, 100x8000, is fitted to 24x1920 and pasted at
\* <<528, 0>>.
C27_Witness ==
    /\ ImageCalled /\ TheFile.width = 100 /\ TheFile.height = 8000
    /\ call.out.val.success /\ Fitted = <<24, 1920>>
    /\ WrittenCanvas.offset = <<528, 0>>

(***************************************************************************)
(* Claims about the output paths of a run (SpecBatch).                     *)
(***************************************************************************)
Discovered == batch.screenshot_files
\* The result of the k-th file reports that its output was written, or the
\* read of the output's size failed after it was written.
OutputWritten(k) ==
    \/ results[k].success
    \/ results[k].error[1].stage = "stat"
\* _get_output_path maps no two discovered files to one path, and the
\* outputs of a first run lie at as many paths as files were written.
OutputPathsInjective ==
    (InLoop \/ Returned) =>
        /\ \A j, k \in 1..Len(Discovered) :
              j # k => get_output_path(config, Discovered[j])
                          # get_output_path(config, Discovered[k])
        /\ ~batch.again =>
              Cardinality(written) = Cardinality({k \in 1..Len(results) : OutputWritten(k)})

\* C28: within one run of process_directory no two discovered files map to
\* the same output path, so no output of the run is overwritten by that of
\* another file, and the results of the run have pairwise different
\* output_file values.
C28_OutputPathsPairwiseDifferent ==
    /\ OutputPathsInjective
    /\ (InLoop \/ Returned) =>
          \A j, k \in 1..Len(results) :
              j # k => results[j].output_file # results[k].output_file

(***************************************************************************)
(* Claims about repeated calls of process_directory (SpecBatch).           *)
(***************************************************************************)
\* C29: process_directory discards the results of earlier calls: after any
\* sequence of calls on one generator get_processing_stats describes the
\* most recent call only, its total the number of files that call
\* discovered, and 0 when the input directory of that call was
\* inaccessible, in which case the call returned an empty list and did not
\* raise.
C29_StatsOfMostRecentCallOnly ==
    /\ (Returned /\ Summarised) =>
          /\ Summary.stats.total = Len(Discovered)
          /\ \A k \in 1..Len(results) : results[k].input_file = Discovered[k]
          /\ ReturnedList = results
    /\ (batch.pc \in {"returned", "raised"}
           /\ ~InputDirAccessible(world, batch.input_dir)) =>
          /\ batch.pc = "returned" /\ ReturnedList = <<>>
          /\ results = <<>>
          /\ Summarised => Summary.stats.total = 0

\* A generator that held two results is called again on a directory that
\* does not exist: the statistics show no result.
C29_Witness ==
    /\ Returned /\ batch.again /\ batch.held = 2
    /\ batch.input_dir = "missing"
    /\ Summarised /\ Summary.stats = [total |-> 0, success |-> 0, failed |-> 0]

(***************************************************************************)
(* Claims about the fields of a result of process_screenshot (SpecImage).  *)
(***************************************************************************)
TheResult == call.out.val
\* scale_to_fit(original size, tablet width, tablet height), as pairs.
FitOfOriginal ==
    {<<o.width, o.height>> :
        o \in scale_to_fit(validate_image(TheFile.width, TheFile.height), 1080, 1920)}

\* C30: a result of process_screenshot carries file_size_mb and
\* scaled_dimensions exactly when success is true, and None for both when
\* it is false; on success scaled_dimensions is scale_to_fit of the original
\* size into the tablet, the size of the pasted image, and the output file
\* was saved and its size read before the result was returned.
C30_SuccessFieldsPresent ==
    ScreenshotCalled =>
        /\ ~call.out.raised
        /\ TheResult.success <=> TheResult.file_size_mb # None
        /\ TheResult.success <=> TheResult.scaled_dimensions # None
        /\ TheResult.success =>
              /\ TheResult.scaled_dimensions[1] \in FitOfOriginal
              /\ call.first_file # None
              /\ TheResult.scaled_dimensions[1]
                    = <<call.first_file[1].image.pasted.width,
                        call.first_file[1].image.pasted.height>>
              /\ TheResult.file_size_mb[1] = call.first_file[1].out_mb
              /\ TheFile.fault.stage \notin {"save", "stat"}
        /\ (FileExists /\ TheFile.fault.stage = "stat") => ~TheResult.success

\* A landscape original, 1920x1080: the result reports the fitted 1080x608
\* (607.5 rounded to even), not the 1080x1920 of the canvas.
C30_Witness ==
    /\ ScreenshotCalled /\ FileExists /\ TheFile = Image(1920, 1080, 1)
    /\ TheResult.success
    /\ TheResult.scaled_dimensions = Some(<<1080, 608>>)
    /\ TheResult.file_size_mb = Some(1)
    /\ call.first_file[1].image.width = 1080 /\ call.first_file[1].image.height = 1920

====
